---- MODULE Spec2Model ----
(***************************************************************************)
(* Model of src/src/lib.rs: the LRU cache with a history of evicted keys.  *)
(*                                                                         *)
(* The cache owns `items` (a LinkedHashMap, modelled as the sequence of    *)
(* its entries from the front, the next one pop_front removes, to the      *)
(* back, where insert attaches), `max_size`, `current_size`, `history`     *)
(* (a VecDeque, modelled as a sequence whose first element is the front),  *)
(* `accesses` and `hits`.                                                  *)
(*                                                                         *)
(* The cache is used by one owner (every method takes self or &mut self),  *)
(* so calls never overlap.  insert holds a loop that need not terminate,   *)
(* so it is modelled one loop iteration per step: `pc` is "insert" from    *)
(* the call until the return, and no other method can start meanwhile.     *)
(* Every other method is one step.                                         *)
(*                                                                         *)
(* `call`, `ret`, `evicted` and `recency` record the run and are not read  *)
(* by the program: the call in progress or last completed (for insert,     *)
(* with the entry its key had when it was called), what it returned, the   *)
(* keys it evicted in eviction order, and the keys of the present entries  *)
(* in the order of their most recent insertion.                            *)
(***************************************************************************)
EXTENDS Integers, Sequences, FiniteSets, TLC

VARIABLES items, max_size, current_size, history, accesses, hits,
          pc, call, ret, evicted, recency

vars == <<items, max_size, current_size, history, accesses, hits,
          pc, call, ret, evicted, recency>>

(***************************************************************************)
(* Bounds of the model.                                                    *)
(***************************************************************************)
\* the keys callers use
Keys == {"a", "b"}
\* the byte a value is filled with
Fill == {1, 2}
\* the longest value inserted
MaxLen == 2
\* the largest capacity the builder is called with
MaxCap == 2
\* inserts under the default capacity stop once current_size would pass this
MaxCur == 3
\* the number of get calls
MaxGets == 1

\* max_size: 64 in new()
DefaultMaxSize == 64

\* a Bytes value: n bytes, all equal to b
Bytes(b, n) == [i \in 1..n |-> b]
Values == {Bytes(b, n) : b \in Fill, n \in 0..MaxLen}

\* Option<T>
None == <<>>
Some(x) == <<x>>

NoKey == "-"
NoCall(op) == [op |-> op, key |-> NoKey, val |-> <<>>, old |-> None]

(***************************************************************************)
(* LinkedHashMap<String, Bytes>, as insert, pop_front, get and             *)
(* contains_key use it.                                                    *)
(***************************************************************************)
keys_of(m) == {m[i].key : i \in DOMAIN m}

lhm_contains_key(m, k) == \E i \in DOMAIN m : m[i].key = k

lhm_get(m, k) ==
    IF \E i \in DOMAIN m : m[i].key = k
    THEN Some(m[CHOOSE i \in DOMAIN m : m[i].key = k].value)
    ELSE None

lhm_without(m, k) == SelectSeq(m, LAMBDA e : e.key # k)

\* a map whose insert leaves a present key's entry where it is in the order
lhm_insert_in_place(m, k, v) ==
    IF lhm_contains_key(m, k)
    THEN [i \in DOMAIN m |-> IF m[i].key = k THEN [key |-> k, value |-> v] ELSE m[i]]
    ELSE Append(m, [key |-> k, value |-> v])

\* a map whose insert keeps the value of a present key
lhm_insert_keep_old(m, k, v) ==
    IF lhm_contains_key(m, k) THEN m ELSE Append(m, [key |-> k, value |-> v])

\* a map whose insert attaches the entry at the front
lhm_insert_at_front(m, k, v) == <<[key |-> k, value |-> v]>> \o lhm_without(m, k)

\* insert on a present key replaces the value and moves the entry to the back
lhm_insert(m, k, v) == Append(lhm_without(m, k), [key |-> k, value |-> v])

\* a pop_front that unlinks the entry at the back
lhm_pop_front_rest_drops_back(m) == SubSeq(m, 1, Len(m) - 1)

\* what is left of the map after pop_front
lhm_pop_front_rest(m) == Tail(m)

\* the entry pop_front returns
lhm_pop_front_entry(m) == Head(m)

(***************************************************************************)
(* VecDeque<String>                                                        *)
(***************************************************************************)
push_front(h, k) == <<k>> \o h

pop_back(h) == IF h = <<>> THEN h ELSE SubSeq(h, 1, Len(h) - 1)

\* an eviction that pushes the key to the back of the history
register_deletion_push_back(h, k, ms) ==
    Append(IF Len(h) > ms THEN pop_back(h) ELSE h, k)

\* an eviction that makes room in the history at its front
register_deletion_pop_front(h, k, ms) ==
    push_front(IF Len(h) > ms THEN Tail(h) ELSE h, k)

\* lines 58-61: the history after an eviction of key k
register_deletion(h, k, ms) ==
    push_front(IF Len(h) > ms THEN pop_back(h) ELSE h, k)

\* a loop condition that forgets the incoming value
needs_room_forgets_value(cs, v, ms) == cs > ms

\* a loop condition that also holds when the value fits exactly
needs_room_at_least(cs, v, ms) == cs + Len(v) >= ms

\* a loop condition that only asks whether the value alone fits
needs_room_ignores_current(cs, v, ms) == Len(v) > ms

\* line 54: the loop condition of insert
needs_room(cs, v, ms) == cs + Len(v) > ms

\* lines 42-46
has_evicted_recently(h, k) == \E i \in DOMAIN h : h[i] = k

(***************************************************************************)
(* The operations.                                                         *)
(***************************************************************************)
\* LRU::new
Init ==
    /\ items = <<>>
    /\ max_size = DefaultMaxSize
    /\ accesses = 0
    /\ hits = 0
    /\ current_size = 0
    /\ history = <<>>
    /\ pc = "idle"
    /\ call = NoCall("new")
    /\ ret = None
    /\ evicted = <<>>
    /\ recency = <<>>

\* a builder that cuts the history down to the new capacity
MaxSize_shrinks_history(size) ==
    /\ pc = "idle"
    /\ max_size' = size
    /\ history' = SubSeq(history, 1, IF Len(history) < size THEN Len(history) ELSE size)
    /\ call' = NoCall("max_size")
    /\ ret' = None
    /\ evicted' = <<>>
    /\ UNCHANGED <<items, current_size, accesses, hits, pc, recency>>

\* LRU::max_size, the builder
MaxSize(size) ==
    /\ pc = "idle"
    /\ max_size' = size
    /\ call' = NoCall("max_size")
    /\ ret' = None
    /\ evicted' = <<>>
    /\ UNCHANGED <<items, current_size, history, accesses, hits, pc, recency>>

\* LRU::has_evicted_recently
HasEvictedRecently(key) ==
    /\ pc = "idle"
    /\ call' = [NoCall("has_evicted_recently") EXCEPT !.key = key]
    /\ ret' = has_evicted_recently(history, key)
    /\ evicted' = <<>>
    /\ UNCHANGED <<items, max_size, current_size, history, accesses, hits, pc,
                   recency>>

\* a contains_key that looks the key up with get, which counts the lookup
ContainsKey_through_get(key) ==
    /\ pc = "idle"
    /\ accesses < MaxGets
    /\ call' = [NoCall("contains_key") EXCEPT !.key = key]
    /\ ret' = lhm_contains_key(items, key)
    /\ accesses' = accesses + 1
    /\ hits' = IF lhm_contains_key(items, key) THEN hits + 1 ELSE hits
    /\ evicted' = <<>>
    /\ UNCHANGED <<items, max_size, current_size, history, pc, recency>>

\* LRU::contains_key
ContainsKey(key) ==
    /\ pc = "idle"
    /\ call' = [NoCall("contains_key") EXCEPT !.key = key]
    /\ ret' = lhm_contains_key(items, key)
    /\ evicted' = <<>>
    /\ UNCHANGED <<items, max_size, current_size, history, accesses, hits, pc,
                   recency>>

\* LRU::insert, the call: control enters the while loop
InsertCall(key, value) ==
    /\ pc = "idle"
    /\ max_size = DefaultMaxSize => current_size + Len(value) <= MaxCur
    /\ pc' = "insert"
    /\ call' = [op |-> "insert", key |-> key, val |-> value,
                old |-> lhm_get(items, key)]
    /\ ret' = None
    /\ evicted' = <<>>
    /\ UNCHANGED <<items, max_size, current_size, history, accesses, hits, recency>>

\* LRU::insert, lines 54-62: a loop iteration in which pop_front returns an entry
InsertEvict ==
    /\ pc = "insert"
    /\ needs_room(current_size, call.val, max_size)
    /\ items # <<>>
    /\ LET popped == lhm_pop_front_entry(items) IN
         /\ items' = lhm_pop_front_rest(items)
         /\ current_size' = current_size - Len(popped.value)
         /\ history' = register_deletion(history, popped.key, max_size)
         /\ evicted' = Append(evicted, popped.key)
         /\ recency' = SelectSeq(recency, LAMBDA k : k # popped.key)
    /\ UNCHANGED <<max_size, accesses, hits, pc, call, ret>>

\* a loop that is left when pop_front returns None
InsertSpin_breaks ==
    /\ pc = "insert"
    /\ needs_room(current_size, call.val, max_size)
    /\ items = <<>>
    /\ current_size' = current_size + Len(call.val)
    /\ ret' = lhm_get(items, call.key)
    /\ items' = lhm_insert(items, call.key, call.val)
    /\ recency' = Append(SelectSeq(recency, LAMBDA k : k # call.key), call.key)
    /\ pc' = "idle"
    /\ UNCHANGED <<max_size, history, accesses, hits, call, evicted>>

\* LRU::insert, lines 54-55, 62-63: a loop iteration in which pop_front returns
\* None; nothing changes and the loop condition is evaluated again
InsertSpin ==
    /\ pc = "insert"
    /\ needs_room(current_size, call.val, max_size)
    /\ items = <<>>
    /\ UNCHANGED vars

\* an insert that adds to current_size only when the key is new
InsertReturn_counts_new_keys ==
    /\ pc = "insert"
    /\ ~needs_room(current_size, call.val, max_size)
    /\ current_size' = IF lhm_contains_key(items, call.key)
                       THEN current_size
                       ELSE current_size + Len(call.val)
    /\ ret' = lhm_get(items, call.key)
    /\ items' = lhm_insert(items, call.key, call.val)
    /\ recency' = Append(SelectSeq(recency, LAMBDA k : k # call.key), call.key)
    /\ pc' = "idle"
    /\ UNCHANGED <<max_size, history, accesses, hits, call, evicted>>

\* LRU::insert, lines 64-66: the loop is left, the entry is added
InsertReturn ==
    /\ pc = "insert"
    /\ ~needs_room(current_size, call.val, max_size)
    /\ current_size' = current_size + Len(call.val)
    /\ ret' = lhm_get(items, call.key)
    /\ items' = lhm_insert(items, call.key, call.val)
    /\ recency' = Append(SelectSeq(recency, LAMBDA k : k # call.key), call.key)
    /\ pc' = "idle"
    /\ UNCHANGED <<max_size, history, accesses, hits, call, evicted>>

\* a get that counts every lookup as a hit
Get_counts_every_hit(key) ==
    /\ pc = "idle"
    /\ accesses < MaxGets
    /\ accesses' = accesses + 1
    /\ hits' = hits + 1
    /\ ret' = lhm_get(items, key)
    /\ call' = [NoCall("get") EXCEPT !.key = key]
    /\ evicted' = <<>>
    /\ UNCHANGED <<items, max_size, current_size, history, pc, recency>>

\* a get that moves the entry it finds to the back of the order
Get_promotes(key) ==
    /\ pc = "idle"
    /\ accesses < MaxGets
    /\ accesses' = accesses + 1
    /\ hits' = IF lhm_contains_key(items, key) THEN hits + 1 ELSE hits
    /\ ret' = lhm_get(items, key)
    /\ items' = IF lhm_contains_key(items, key)
                THEN lhm_insert(items, key, lhm_get(items, key)[1])
                ELSE items
    /\ call' = [NoCall("get") EXCEPT !.key = key]
    /\ evicted' = <<>>
    /\ UNCHANGED <<max_size, current_size, history, pc, recency>>

\* LRU::get
Get(key) ==
    /\ pc = "idle"
    /\ accesses < MaxGets
    /\ accesses' = accesses + 1
    /\ hits' = IF lhm_contains_key(items, key) THEN hits + 1 ELSE hits
    /\ ret' = lhm_get(items, key)
    /\ call' = [NoCall("get") EXCEPT !.key = key]
    /\ evicted' = <<>>
    /\ UNCHANGED <<items, max_size, current_size, history, pc, recency>>

Next ==
    \/ \E size \in 0..MaxCap : MaxSize(size)
    \/ \E key \in Keys : HasEvictedRecently(key)
    \/ \E key \in Keys : ContainsKey(key)
    \/ \E key \in Keys, value \in Values : InsertCall(key, value)
    \/ InsertEvict
    \/ InsertSpin
    \/ InsertReturn
    \/ \E key \in Keys : Get(key)

Spec == Init /\ [][Next]_vars

(***************************************************************************)
(* Properties.                                                             *)
(***************************************************************************)
RECURSIVE SumLen(_)
\* the sum of len(value) over the entries of a map
SumLen(m) == IF m = <<>> THEN 0 ELSE Len(Head(m).value) + SumLen(Tail(m))

Last(s) == s[Len(s)]
Range(s) == {s[i] : i \in DOMAIN s}
KeyOrder(m) == [i \in DOMAIN m |-> m[i].key]

\* an insert call has just returned
InsertDone == pc = "idle" /\ call.op = "insert"
\* the step is a loop iteration of insert that evicts an entry
EvictStep == pc = "insert" /\ pc' = "insert" /\ Len(evicted') = Len(evicted) + 1
\* the step is the return of an insert call
ReturnStep == pc = "insert" /\ pc' = "idle"
\* the step is a get call
GetStep == pc = "idle" /\ call'.op = "get"

\* C1: between operations, current_size is the sum of the lengths of the values
\* in the mapping.
C1_SizeAccounting == pc = "idle" => current_size = SumLen(items)

\* C2: after an insert call with a value no longer than max_size has returned,
\* current_size <= max_size.
C2_CapacityAfterInsert ==
    (InsertDone /\ Len(call.val) <= max_size) => current_size <= max_size

\* an insert that had to evict has returned with the cache filled to max_size
C2_Witness ==
    /\ InsertDone
    /\ evicted # <<>>
    /\ Len(call.val) > 0
    /\ current_size = max_size

\* C3: an insert call with a value no longer than max_size terminates: its
\* loop never finds the mapping empty while room is still missing (from there
\* every iteration changes nothing and the loop never ends).
C3_InsertTerminates ==
    (pc = "insert" /\ Len(call.val) <= max_size)
        => ~(needs_room(current_size, call.val, max_size) /\ items = <<>>)

\* C4: the entry insert evicts is the one whose most recent insertion is the
\* earliest among the present entries, and a get call leaves the eviction
\* order as it is.
C4_EvictionOrder ==
    [][ /\ EvictStep => (recency # <<>> /\ Last(evicted') = Head(recency))
        /\ GetStep => KeyOrder(items') = KeyOrder(items) ]_vars

\* one of two entries has been evicted after a get call, the other one stays
C4_Witness ==
    /\ pc = "insert"
    /\ Len(evicted) = 1
    /\ Len(items) = 1
    /\ accesses > 0

\* C5: the history never holds more than max_size keys, and an eviction that
\* finds it holding max_size keys or more does not make it longer.
C5_HistoryBound ==
    /\ [](Len(history) <= max_size)
    /\ [][(EvictStep /\ Len(history) >= max_size)
            => Len(history') <= Len(history)]_vars

\* C6: insert(k, v) returns Some(old) when k was present with value old at the
\* call, and None only when k was absent.
C6_ReturnsPrevious == InsertDone => ret = call.old

\* C7: after insert(k, v) has returned, k is present and get(k) returns v;
\* the value get returns for a present key changes only when the key is
\* evicted or inserted again.
C7_InsertedRetrievable ==
    /\ [](InsertDone => /\ lhm_contains_key(items, call.key)
                        /\ lhm_get(items, call.key) = Some(call.val))
    /\ [][items' # items =>
            \A k \in Keys :
              (lhm_contains_key(items, k) /\ lhm_get(items', k) # lhm_get(items, k))
                  => \/ EvictStep /\ Last(evicted') = k
                     \/ ReturnStep /\ call.key = k]_vars
    /\ [][GetStep => ret' = lhm_get(items', call'.key)]_vars

\* an insert that overwrote a present key and evicted another one has returned
C7_Witness ==
    /\ InsertDone
    /\ evicted # <<>>
    /\ Len(items) = 1
    /\ Len(call.val) > 0
    /\ lhm_get(items, call.key) = Some(call.val)

\* C8, as stated: after an insert call has returned, has_evicted_recently is
\* true for every key the call evicted.
C8_AllEvictedInHistory ==
    InsertDone => \A k \in Range(evicted) : has_evicted_recently(history, k)

\* C8, amended: after an insert call has returned, has_evicted_recently is
\* true for each of the last max_size keys the call evicted.
C8_LastEvictedInHistory ==
    InsertDone =>
        \A i \in DOMAIN evicted :
            i > Len(evicted) - max_size => has_evicted_recently(history, evicted[i])

\* an insert has evicted two entries and the history had room for both
C8_Witness ==
    /\ InsertDone
    /\ Len(evicted) = 2
    /\ max_size = 2
    /\ Len(history) > max_size

\* C9: after insert(k, v) has returned, every other key the call evicted is
\* absent, and an absent key becomes present only by an insert of that key.
C9_EvictedAbsent ==
    /\ [](InsertDone =>
            \A e \in Range(evicted) \ {call.key} :
                ~lhm_contains_key(items, e) /\ lhm_get(items, e) = None)
    /\ [][items' # items =>
            \A e \in Keys :
              (~lhm_contains_key(items, e) /\ lhm_contains_key(items', e))
                  => ReturnStep /\ call.key = e]_vars

\* an insert of one key has evicted the other key and returned
C9_Witness ==
    /\ InsertDone
    /\ Range(evicted) \ {call.key} # {}
    /\ Len(items) = 1

\* C10: a get(k) call adds 1 to accesses, adds 1 to hits if k is present and
\* 0 otherwise, and returns the stored value if k is present and None otherwise.
C10_GetCounts ==
    [][GetStep =>
        LET k == call'.key IN
          /\ accesses' = accesses + 1
          /\ hits' = hits + (IF k \in keys_of(items) THEN 1 ELSE 0)
          /\ IF k \in keys_of(items)
             THEN \E i \in DOMAIN items : items[i].key = k /\ ret' = Some(items[i].value)
             ELSE ret' = None]_vars

\* a get has missed after an earlier insert
C10_Witness ==
    /\ pc = "idle"
    /\ call.op = "get"
    /\ ret = None
    /\ items # <<>>
    /\ accesses = 1
    /\ hits = 0

\* C11: hits <= accesses in every state, neither counter ever decreases, and
\* only a get call changes them: insert, max_size, contains_key and
\* has_evicted_recently leave both as they are.
C11_Counters ==
    /\ [](hits <= accesses)
    /\ [][ /\ accesses' >= accesses
           /\ hits' >= hits
           /\ ~GetStep => (accesses' = accesses /\ hits' = hits) ]_vars

\* a contains_key call has found a key after a get that hit
C11_Witness ==
    /\ pc = "idle"
    /\ call.op = "contains_key"
    /\ ret = TRUE
    /\ accesses = 1
    /\ hits = 1

\* C12: a get call, hit or miss, leaves the mapping with its order,
\* current_size, max_size and the history unchanged, so that what it returned
\* is what a get of the same key returns next.
C12_GetFrame ==
    [][GetStep =>
        /\ items' = items
        /\ current_size' = current_size
        /\ max_size' = max_size
        /\ history' = history
        /\ \A k \in Keys : lhm_get(items', k) = lhm_get(items, k)
        /\ ret' = lhm_get(items', call'.key) ]_vars

\* a get has hit the entry at the front of a mapping of two entries
C12_Witness ==
    /\ pc = "idle"
    /\ call.op = "get"
    /\ Len(items) = 2
    /\ items[1].key = call.key
    /\ ret = Some(items[1].value)
    /\ history # <<>>

\* the call in progress is an insert of a value longer than max_size
Oversized == pc = "insert" /\ Len(call.val) > max_size

\* C13: an insert call with a value longer than max_size never completes: no
\* such call has ever returned, and every step of one leaves control in the
\* loop, where it removes the front entry or nothing and adds no entry.
C13_OversizedNeverReturns ==
    /\ [](InsertDone => Len(call.val) <= max_size)
    /\ [][Oversized =>
            /\ pc' = "insert"
            /\ call' = call
            /\ max_size' = max_size
            /\ items' = items \/ items' = Tail(items) ]_vars

\* an oversized insert has evicted every entry and goes on with an empty mapping
C13_Witness ==
    /\ Oversized
    /\ evicted # <<>>
    /\ items = <<>>
    /\ max_size > 0

\* C14: an insert call with a value longer than max_size evicts every entry and
\* then has the mapping empty and current_size = 0: once its loop has emptied
\* the mapping, which is the state it stays in, current_size is 0.
C14_OversizedEmptiesToZero ==
    (Oversized /\ items = <<>>) => current_size = 0

\* s is t or t without its last element
IsFrontOf(s, t) ==
    /\ Len(s) \in {Len(t), Len(t) - 1}
    /\ \A i \in DOMAIN s : s[i] = t[i]

\* C15: the history is, newest first, the most recent evictions with none
\* missing or reordered: it starts empty, only an eviction changes it, and an
\* eviction puts the evicted key at the front of the keys that were there, in
\* their order, less at most the rearmost one.
C15_HistoryIsRecentEvictions ==
    [][ /\ EvictStep => /\ history' # <<>>
                        /\ Head(history') = Last(evicted')
                        /\ IsFrontOf(Tail(history'), history)
        /\ ~EvictStep => history' = history ]_vars

\* the second eviction of a call has dropped the rearmost key of a full history
C15_Witness ==
    /\ pc = "insert"
    /\ evicted # <<>>
    /\ max_size = 1
    /\ Len(history) = 2
    /\ history[1] # history[2]
    /\ Len(evicted) = 2

\* C16: insert evicts only while room is missing: an eviction happens only
\* when current_size + len(value) > max_size, and as soon as that is false the
\* call returns without another eviction and without a change of the history.
C16_EvictsOnlyForRoom ==
    [][ /\ EvictStep => current_size + Len(call.val) > max_size
        /\ (pc = "insert" /\ current_size + Len(call.val) <= max_size)
              => (ReturnStep /\ evicted' = evicted /\ history' = history) ]_vars

\* an insert has returned after one eviction, leaving the other entry in place
\* and the cache filled to max_size
C16_Witness ==
    /\ InsertDone
    /\ Len(evicted) = 1
    /\ Len(items) = 2
    /\ current_size = max_size
    /\ current_size = SumLen(items)

\* the keys of s other than k, in their order
Others(s, k) == SelectSeq(s, LAMBDA x : x # k)

\* C17: after insert(k, v) has returned, k is the newest entry, also when k
\* was present before; the other entries keep their order, and entries leave
\* the mapping from the front only, so k goes after all of them.
C17_InsertedIsNewest ==
    /\ [](InsertDone => (items # <<>> /\ Last(items).key = call.key))
    /\ [][items' # items =>
            \/ /\ ReturnStep
               /\ Others(KeyOrder(items'), call.key) = Others(KeyOrder(items), call.key)
            \/ /\ EvictStep
               /\ KeyOrder(items') = Tail(KeyOrder(items)) ]_vars

\* an insert has given a present key another value without an eviction, while
\* the other key is present too
C17_Witness ==
    /\ InsertDone
    /\ call.old # None
    /\ ret = call.old
    /\ evicted = <<>>
    /\ Len(items) = 2
    /\ call.old # Some(call.val)

\* the step is a call of the builder
BuilderStep == pc = "idle" /\ call'.op = "max_size"

\* C18: the builder max_size(n) changes the capacity and nothing else: the
\* mapping, current_size, the history, accesses and hits stay as they are and
\* no entry is evicted, also when n is smaller than current_size.
C18_BuilderFrame ==
    [][BuilderStep =>
        /\ pc' = "idle"
        /\ items' = items
        /\ current_size' = current_size
        /\ history' = history
        /\ accesses' = accesses
        /\ hits' = hits ]_vars

\* the builder has lowered max_size below current_size and below the length of
\* the history, and the entries are still there
C18_Witness ==
    /\ pc = "idle"
    /\ call.op = "max_size"
    /\ max_size < current_size
    /\ max_size < Len(history)
    /\ Len(items) = 2

\* C19: in every state, the states between the loop iterations of insert
\* included, current_size is at least the sum of the lengths of the values in
\* the mapping, so current_size -= len(evicted value) never goes below zero.
C19_NoUnderflow ==
    /\ current_size >= SumLen(items)
    /\ current_size >= 0
    /\ items # <<>> => current_size - Len(lhm_pop_front_entry(items).value) >= 0

\* insert is between two evictions, and current_size is more than the bytes
\* that are left in the mapping
C19_Witness ==
    /\ pc = "insert"
    /\ Len(evicted) = 1
    /\ items # <<>>
    /\ SumLen(items) > 0
    /\ current_size > SumLen(items)
    /\ needs_room(current_size, call.val, max_size)

\* C20: after an insert call has returned, the values stored in the mapping
\* have at most max_size bytes together.
C20_StoredBytesBounded == InsertDone => SumLen(items) <= max_size

\* an insert of a key that was present has evicted an entry and returned, and
\* the mapping holds exactly max_size bytes
C20_Witness ==
    /\ InsertDone
    /\ call.old # None
    /\ evicted # <<>>
    /\ max_size > 0
    /\ SumLen(items) = max_size

====
